---- MODULE Spec2Model ----
(***************************************************************************)
(* Model of the LeetCode reminder mail server (src/index.js): the schedule *)
(* handler POST /api/set-reminder, the process-due handler                 *)
(* POST /api/check-reminders, and the helpers they call.                   *)
(*                                                                         *)
(* Node runs one handler at a time between awaits, so every action below   *)
(* is the code from one await to the next.  The store (MongoDB), the mail  *)
(* transport and the clock are the environment: a store call may fail, a   *)
(* mail call may fail, the clock only moves forward.                       *)
(*                                                                         *)
(* Instants are counted in clock ticks, TicksPerMinute ticks to a minute.  *)
(* JavaScript strings are sequences of one-character strings, JavaScript   *)
(* numbers are counted in tenths (5 is 0.5, 10 is 1).                      *)
(***************************************************************************)
EXTENDS Integers, Sequences, FiniteSets, TLC

\* ------------------------------------------------------------------------
\* Bounds of the model
\* ------------------------------------------------------------------------

\* Reminder records the store may hold.
MaxReminders == 2

\* Last instant of the clock.
MaxTime == 1

\* Writes of sent = true that fail over a run (each leaves its record to be
\* found again; the other store failures leave no trace and are not counted).
MaxFaults == 1

\* Concurrent process-due invocations (handler slots).
NumWorkers == 2

\* Clock ticks in one minute.
TicksPerMinute == 1

\* Longest reminderMinutes string whose parsing is checked.
MaxLen == 4

\* The reminderMinutes numbers whose parsing is checked run from
\* -MaxTenths/10 to MaxTenths/10 in steps of one tenth.
MaxTenths == 15

\* ------------------------------------------------------------------------
\* JavaScript values
\* ------------------------------------------------------------------------

Undefined == [t |-> "undefined"]

Null == [t |-> "null"]

Str(s) == [t |-> "string", s |-> s]

Num(tenths) == [t |-> "number", tenths |-> tenths]

\* !v for the values above.
Falsy(v) ==
  \/ v.t \in {"undefined", "null"}
  \/ v.t = "string" /\ v.s = <<>>
  \/ v.t = "number" /\ v.tenths = 0

Whitespace == {" "}

Digits == {"0", "1", "2", "3", "4", "5", "6", "7", "8", "9"}

DigitVal(c) ==
  CASE c = "0" -> 0 [] c = "1" -> 1 [] c = "2" -> 2 [] c = "3" -> 3
    [] c = "4" -> 4 [] c = "5" -> 5 [] c = "6" -> 6 [] c = "7" -> 7
    [] c = "8" -> 8 [] c = "9" -> 9

\* String.prototype.trim
RECURSIVE TrimLeft(_)
TrimLeft(s) ==
  IF s # <<>> /\ Head(s) \in Whitespace THEN TrimLeft(Tail(s)) ELSE s

RECURSIVE TrimRight(_)
TrimRight(s) ==
  IF s # <<>> /\ s[Len(s)] \in Whitespace
    THEN TrimRight(SubSeq(s, 1, Len(s) - 1))
    ELSE s

Trim(s) == TrimRight(TrimLeft(s))

\* String.prototype.toLowerCase
LowerChar(c) ==
  CASE c = "M" -> "m" [] c = "H" -> "h" [] c = "D" -> "d" [] c = "X" -> "x"
    [] OTHER -> c

\* A variant of ToLowerCase that leaves the string as it is.
ToLowerCaseNone(s) == s

ToLowerCase(s) == [k \in 1..Len(s) |-> LowerChar(s[k])]

EndsWith(s, c) == s # <<>> /\ s[Len(s)] = c

\* The value of the longest prefix of digits of s, acc the value so far.
RECURSIVE DigitRun(_, _)
DigitRun(s, acc) ==
  IF s # <<>> /\ Head(s) \in Digits
    THEN DigitRun(Tail(s), 10 * acc + DigitVal(Head(s)))
    ELSE acc

\* parseInt(s): leading whitespace skipped, an optional sign, then the
\* longest run of digits; NaN when there is no digit there.
ParseInt(s) ==
  LET t == TrimLeft(s)
      neg == t # <<>> /\ Head(t) = "-"
      signed == t # <<>> /\ Head(t) \in {"-", "+"}
      body == IF signed THEN Tail(t) ELSE t
  IN IF body = <<>> \/ Head(body) \notin Digits
       THEN [nan |-> TRUE, val |-> 0]
       ELSE [nan |-> FALSE,
             val |-> IF neg THEN 0 - DigitRun(body, 0) ELSE DigitRun(body, 0)]

\* The null that parseReminderTime returns, among the minutes it returns
\* (which are never negative).
NoMinutes == -1

\* parseReminderTime(reminderMinutes): minutes, or NoMinutes for null.
parseReminderTime(reminderMinutes) ==
  IF reminderMinutes.t = "number"
    THEN IF reminderMinutes.tenths > 0
           THEN reminderMinutes.tenths \div 10
           ELSE NoMinutes
  ELSE IF reminderMinutes.t # "string"
    THEN NoMinutes
  ELSE
    LET timeStr == ToLowerCase(Trim(reminderMinutes.s))
        value == ParseInt(timeStr)
    IN IF EndsWith(timeStr, "m") \/ EndsWith(timeStr, "h") \/ EndsWith(timeStr, "d")
         THEN IF value.nan \/ value.val <= 0
                THEN NoMinutes
              ELSE IF EndsWith(timeStr, "m") THEN value.val
              ELSE IF EndsWith(timeStr, "h") THEN value.val * 60
              ELSE value.val * 24 * 60
         ELSE IF ~value.nan /\ value.val > 0 THEN value.val ELSE NoMinutes

\* validateEmail(email): /^[^\s@]+@[^\s@]+\.[^\s@]+$/ on a string.
Plain(s) == s # <<>> /\ \A k \in 1..Len(s) : s[k] \notin Whitespace \cup {"@"}

validateEmail(email) ==
  /\ email.t = "string"
  /\ \E a \in 1..Len(email.s), d \in 1..Len(email.s) :
       /\ a < d
       /\ email.s[a] = "@"
       /\ email.s[d] = "."
       /\ Plain(SubSeq(email.s, 1, a - 1))
       /\ Plain(SubSeq(email.s, a + 1, d - 1))
       /\ Plain(SubSeq(email.s, d + 1, Len(email.s)))

\* ------------------------------------------------------------------------
\* Time zones and instants (moment-timezone)
\* ------------------------------------------------------------------------

\* A time zone name is a string; NoZone is a missing or empty one.
NoZone == ""

DEFAULT_TIMEZONE == "Asia/Kolkata"

\* The zones moment.tz.zone knows.
Zones == {"Asia/Kolkata", "UTC", "America/New_York"}

\* Minutes east of UTC of a known zone.
UtcOffset(timezone) ==
  CASE timezone = "Asia/Kolkata" -> 330
    [] timezone = "America/New_York" -> -300
    [] OTHER -> 0

ZoneAbbr(timezone) ==
  CASE timezone = "Asia/Kolkata" -> "IST"
    [] timezone = "America/New_York" -> "EST"
    [] timezone = "UTC" -> "UTC"

\* A moment: an instant and the zone it is shown in, NoZone for the
\* server's own time.
Moment(instant) == [instant |-> instant, zone |-> NoZone]

\* A variant of InZone that moves the instant by the zone's offset.
InZoneShift(m, timezone) ==
  IF timezone \in Zones
    THEN [m EXCEPT !.zone = timezone,
                   !.instant = @ + UtcOffset(timezone) * TicksPerMinute]
    ELSE m

\* m.tz(timezone): an unknown zone leaves the moment as it is.
InZone(m, timezone) ==
  IF timezone \in Zones THEN [m EXCEPT !.zone = timezone] ELSE m

\* m.add(minutes, 'minutes')
AddMinutes(m, minutes) ==
  [m EXCEPT !.instant = m.instant + minutes * TicksPerMinute]

\* calculateReminderTime(minutes, timezone), clock the current instant.
calculateReminderTime(minutes, timezone, clock) ==
  AddMinutes(InZone(Moment(clock), timezone), minutes).instant

\* formatScheduledTime(date, timezone): the wall-clock time and the zone
\* abbreviation of the text 'MMM D, YYYY h:mm A z'.
formatScheduledTime(date, timezone) ==
  LET m == InZone(Moment(date), timezone)
  IN IF m.zone = NoZone
       THEN [wall |-> m.instant, abbr |-> ""]
       ELSE [wall |-> m.instant + UtcOffset(m.zone) * TicksPerMinute,
             abbr |-> ZoneAbbr(m.zone)]

\* detectTimezone(req), header the x-timezone header.
detectTimezone(header) ==
  LET timezone == IF header # NoZone THEN header ELSE DEFAULT_TIMEZONE
  IN IF timezone \in Zones THEN timezone ELSE DEFAULT_TIMEZONE

\* ------------------------------------------------------------------------
\* The Reminder model (mongoose)
\* ------------------------------------------------------------------------

\* A variant of NewReminder whose sent defaults to true.
NewReminderSent(email, problemUrl, scheduledFor, timezone, clock) ==
  [email |-> IF email.t = "string" THEN Str(Trim(email.s)) ELSE email,
   problemUrl |-> IF problemUrl.t = "string" THEN Str(Trim(problemUrl.s))
                  ELSE problemUrl,
   scheduledFor |-> scheduledFor,
   timezone |-> IF timezone = NoZone THEN "UTC" ELSE timezone,
   sent |-> TRUE,
   createdAt |-> clock,
   _id |-> 0]

\* new Reminder({email, problemUrl, scheduledFor, timezone}): strings are
\* trimmed, sent and createdAt take their defaults.  problemTitle only
\* appears in the text of the mails and is left out; _id is the record's
\* place in the store, 0 until it is saved.
NewReminder(email, problemUrl, scheduledFor, timezone, clock) ==
  [email |-> IF email.t = "string" THEN Str(Trim(email.s)) ELSE email,
   problemUrl |-> IF problemUrl.t = "string" THEN Str(Trim(problemUrl.s))
                  ELSE problemUrl,
   scheduledFor |-> scheduledFor,
   timezone |-> IF timezone = NoZone THEN "UTC" ELSE timezone,
   sent |-> FALSE,
   createdAt |-> clock,
   _id |-> 0]

\* The schema's validators, run by save().
SchemaValid(doc) ==
  /\ ~Falsy(doc.email)
  /\ validateEmail(doc.email)
  /\ ~Falsy(doc.problemUrl)

\* A variant of DueQuery that asks for scheduledFor equal to the date, so
\* that a record whose instant has passed is not found.
DueQueryExact(docs, date) ==
  {k \in 1..Len(docs) : docs[k].scheduledFor = date /\ docs[k].sent = FALSE}

\* A variant of DueQuery without the sent: false condition.
DueQueryAnyState(docs, date) ==
  {k \in 1..Len(docs) : docs[k].scheduledFor <= date}

\* A variant of DueQuery without the scheduledFor condition.
DueQueryAnyTime(docs, date) ==
  {k \in 1..Len(docs) : docs[k].sent = FALSE}

\* Reminder.find({scheduledFor: {$lte: date}, sent: false}) on a store.
DueQuery(docs, date) ==
  {k \in 1..Len(docs) : docs[k].scheduledFor <= date /\ docs[k].sent = FALSE}

\* The orders in which a query may return the records ids.
Orders(ids) ==
  {o \in [1..Cardinality(ids) -> ids] :
     \A a, b \in 1..Cardinality(ids) : a # b => o[a] # o[b]}

\* ------------------------------------------------------------------------
\* Requests
\* ------------------------------------------------------------------------

CRON_SECRET == Str(<<"s">>)

\* The x-cron-secret headers tried.
Tokens == {Undefined, CRON_SECRET, Str(<<"x">>)}

GoodEmail == Str(<<"a", "@", "b", ".", "c">>)

GoodUrl == Str(<<"u">>)

Req(email, problemUrl, reminderMinutes, timezone, header) ==
  [email |-> email, problemUrl |-> problemUrl,
   reminderMinutes |-> reminderMinutes, timezone |-> timezone,
   header |-> header]

\* The schedule requests tried.
Requests ==
  { Req(GoodEmail, GoodUrl, Num(10), NoZone, "Mars/Phobos"),
    Req(GoodEmail, GoodUrl, Num(5), "UTC", NoZone),
    Req(GoodEmail, GoodUrl, Str(<<" ", "1", "H">>), "Mars/Phobos", "UTC"),
    Req(GoodEmail, Str(<<" ">>), Num(10), NoZone, "UTC"),
    Req(Undefined, GoodUrl, Num(10), NoZone, NoZone),
    Req(GoodEmail, Str(<<>>), Num(10), NoZone, NoZone),
    Req(GoodEmail, GoodUrl, Undefined, NoZone, NoZone),
    Req(Str(<<"a", "@", "b">>), GoodUrl, Str(<<"a", "b", "c">>), NoZone, NoZone),
    Req(GoodEmail, GoodUrl, Null, NoZone, NoZone),
    Req(GoodEmail, GoodUrl, Str(<<"-", "5", "m">>), NoZone, NoZone) }

\* ------------------------------------------------------------------------
\* State
\* ------------------------------------------------------------------------

VARIABLES
  now,         \* the clock
  store,       \* the reminders collection: the record with _id k is store[k]
  wk,          \* the process-due invocations in progress, one per slot
  sc,          \* the schedule request in progress
  attempts,    \* attempts[k]: reminder mails handed to the transport for record k
  faults,      \* writes of sent = true that have failed
  commitFailed,\* records whose sent = true write has failed
  undelivered, \* records with a reminder mail the transport did not take
  lastRun      \* "queried" from the start of a process-due invocation,
               \* "complete" once it has answered, as long as the clock
               \* has not moved and no record has been added; else "none"

vars == <<now, store, wk, sc, attempts, faults, commitFailed, undelivered,
          lastRun>>

Workers == 1..NumWorkers

RecIds == 1..MaxReminders

\* The error of sendEmail's failure result, and no error.
SendError == "Failed to send email"

NoError == "null"

\* A variant of sendEmail without the catch: a failure is thrown.
sendEmailThrows(ok) ==
  [thrown |-> ~ok, success |-> ok,
   error |-> IF ok THEN NoError ELSE SendError]

\* sendEmail(to, template), ok telling whether transporter.sendMail took
\* the mail: its catch turns a failure into a result, nothing is thrown.
sendEmail(ok) ==
  [thrown |-> FALSE, success |-> ok,
   error |-> IF ok THEN NoError ELSE SendError]

\* A slot with no invocation in it.  sends, queries and saves count the
\* mail and store calls of the invocation; faulted tells that one of its
\* store calls failed; afterFullRun that it follows a full run directly.
IdleWorker ==
  [pc |-> "idle", token |-> Undefined, qnow |-> 0, due |-> <<>>, i |-> 0,
   emailResult |-> sendEmail(TRUE), results |-> <<>>,
   status |-> 0, success |-> FALSE, processed |-> 0, error |-> NoError,
   sends |-> 0, queries |-> 0, saves |-> 0,
   faulted |-> FALSE, afterFullRun |-> FALSE]

\* No request in progress.  status .. respTimezone are the response;
\* at is the instant the request came, before the number of records then,
\* created the _id of the record it saved, confirms counts its
\* confirmation mails, confirmed tells whether the transport took the
\* last, faulted that the store failed.
IdleSchedule ==
  [pc |-> "idle", req |-> Req(Undefined, Undefined, Undefined, NoZone, NoZone),
   minutes |-> NoMinutes, timezone |-> NoZone, scheduledFor |-> 0,
   formatted |-> formatScheduledTime(0, NoZone), doc |-> <<>>,
   status |-> 0, success |-> FALSE, error |-> NoError, emailError |-> NoError,
   respScheduledFor |-> formatScheduledTime(0, NoZone), respTimezone |-> NoZone,
   at |-> 0, before |-> 0, created |-> 0, confirms |-> 0, confirmed |-> TRUE,
   faulted |-> FALSE]

Init ==
  /\ now = 0
  /\ store = <<>>
  /\ wk = [w \in Workers |-> IdleWorker]
  /\ sc = IdleSchedule
  /\ attempts = [k \in RecIds |-> 0]
  /\ faults = 0
  /\ commitFailed = {}
  /\ undelivered = {}
  /\ lastRun = "none"

\* The clock moves on.  A reminder may become due.
Tick ==
  /\ now < MaxTime
  /\ now' = now + 1
  /\ lastRun' = "none"
  /\ UNCHANGED <<store, wk, sc, attempts, faults, commitFailed, undelivered>>

\* ------------------------------------------------------------------------
\* POST /api/check-reminders
\* ------------------------------------------------------------------------

\* A variant of Authorized that takes any header that is present.
AuthorizedIfPresent(token) == ~(token = Undefined)

\* The x-cron-secret check: the header is the secret.
Authorized(token) == ~(token # CRON_SECRET)

\* A variant of Respond that counts the delivered reminders only.
RespondDelivered(worker) ==
  [worker EXCEPT !.pc = "done", !.status = 200, !.success = TRUE,
                 !.processed = Cardinality({j \in 1..Len(worker.results) :
                                              worker.results[j].emailSent})]

\* res.json({success: true, processedReminders, results})
Respond(worker) ==
  [worker EXCEPT !.pc = "done", !.status = 200, !.success = TRUE,
                 !.processed = Len(worker.due)]

\* The catch block: res.status(500).json({error: ...})
RespondError(worker) ==
  [worker EXCEPT !.pc = "done", !.status = 500,
                 !.error = "Failed to process reminders"]

\* A request arrives and takes the first free slot: the secret is checked
\* and the due query is issued with the current date.
Start(w, token) ==
  /\ wk[w].pc = "idle"
  /\ \A v \in 1..(w - 1) : wk[v].pc # "idle"
  /\ IF Authorized(token)
       THEN /\ wk' = [wk EXCEPT ![w] =
                 [@ EXCEPT !.pc = "query", !.token = token, !.qnow = now,
                           !.afterFullRun = (lastRun = "complete")]]
            /\ lastRun' = "queried"
       ELSE /\ wk' = [wk EXCEPT ![w] =
                 [@ EXCEPT !.pc = "done", !.token = token, !.status = 401,
                           !.error = "Unauthorized"]]
            /\ lastRun' = lastRun
  /\ UNCHANGED <<now, store, sc, attempts, faults, commitFailed, undelivered>>

\* The query answers with the due records in some order; the loop starts,
\* or the response goes out when nothing is due.  The query's date is not
\* used again and is dropped from the slot.
RunQuery(w) ==
  /\ wk[w].pc = "query"
  /\ \E order \in Orders(DueQuery(store, wk[w].qnow)) :
       LET worker == [wk[w] EXCEPT !.due = [k \in 1..Len(order) |-> store[order[k]]],
                                   !.i = 1, !.queries = @ + 1, !.qnow = 0,
                                   !.afterFullRun = @ /\ lastRun = "queried"]
       IN /\ wk' = [wk EXCEPT ![w] =
               IF Len(order) = 0 THEN Respond(worker)
               ELSE [worker EXCEPT !.pc = "send"]]
          /\ lastRun' = IF Len(order) = 0 /\ lastRun = "queried"
                          THEN "complete" ELSE lastRun
  /\ UNCHANGED <<now, store, sc, attempts, faults, commitFailed, undelivered>>

\* The query fails: the catch block answers.
QueryFail(w) ==
  /\ wk[w].pc = "query"
  /\ wk' = [wk EXCEPT ![w] =
       RespondError([@ EXCEPT !.queries = @ + 1, !.qnow = 0, !.faulted = TRUE])]
  /\ lastRun' = "none"
  /\ UNCHANGED <<now, store, sc, attempts, faults, commitFailed, undelivered>>

\* A variant of MarkSent that marks the record only when its mail went out.
MarkSentOnSuccess(reminder, emailResult) ==
  [reminder EXCEPT !.sent = emailResult.success]

\* reminder.sent = true, whatever emailResult is.
MarkSent(reminder, emailResult) == [reminder EXCEPT !.sent = TRUE]

\* A variant of SendReminder that does not wait for save(): after a record
\* that is not the last, the mail of the next is sent at once.
SendReminderNoWait(w, ok) ==
  /\ wk[w].pc = "send"
  /\ attempts' = [attempts EXCEPT ![wk[w].due[wk[w].i]._id] = @ + 1]
  /\ wk' = [wk EXCEPT ![w] =
       [@ EXCEPT !.pc = IF wk[w].i < Len(wk[w].due) THEN "send" ELSE "save",
                 !.i = IF wk[w].i < Len(wk[w].due) THEN @ + 1 ELSE @,
                 !.sends = @ + 1,
                 !.emailResult = sendEmail(ok),
                 !.due[wk[w].i] = MarkSent(@, sendEmail(ok))]]
  /\ lastRun' = lastRun
  /\ undelivered' = IF ok THEN undelivered
                    ELSE undelivered \cup {wk[w].due[wk[w].i]._id}
  /\ UNCHANGED <<now, store, sc, faults, commitFailed>>

\* sendEmail for the loop's record returns; reminder.sent = true is set on
\* the document and its save() is issued.
SendReminder(w, ok) ==
  /\ wk[w].pc = "send"
  /\ attempts' = [attempts EXCEPT ![wk[w].due[wk[w].i]._id] = @ + 1]
  /\ IF sendEmail(ok).thrown
       THEN /\ wk' = [wk EXCEPT ![w] = RespondError([@ EXCEPT !.sends = @ + 1])]
            /\ lastRun' = "none"
       ELSE /\ wk' = [wk EXCEPT ![w] =
                 [@ EXCEPT !.pc = "save", !.sends = @ + 1,
                           !.emailResult = sendEmail(ok),
                           !.due[wk[w].i] = MarkSent(@, sendEmail(ok))]]
            /\ lastRun' = lastRun
  /\ undelivered' = IF ok THEN undelivered
                    ELSE undelivered \cup {wk[w].due[wk[w].i]._id}
  /\ UNCHANGED <<now, store, sc, faults, commitFailed>>

\* A variant of SaveSent whose update has no _id filter.
SaveSentAll(docs, doc) ==
  [k \in 1..Len(docs) |-> [docs[k] EXCEPT !.sent = doc.sent]]

\* The update that document.save() sends for a document whose sent was set.
SaveSent(docs, doc) ==
  IF doc.sent # docs[doc._id].sent
    THEN [docs EXCEPT ![doc._id].sent = doc.sent]
    ELSE docs

\* save() returns: the outcome is pushed (emailResult then goes out of
\* scope); the loop goes on to the next record, or the response goes out
\* after the last.
CommitSent(w) ==
  /\ wk[w].pc = "save"
  /\ store' = SaveSent(store, wk[w].due[wk[w].i])
  /\ LET r == wk[w].due[wk[w].i]
         worker == [wk[w] EXCEPT
           !.saves = @ + 1,
           !.i = @ + 1,
           !.emailResult = IdleWorker.emailResult,
           !.results = Append(@,
              [reminderId |-> r._id,
               email |-> r.email,
               scheduledFor |-> formatScheduledTime(r.scheduledFor, r.timezone),
               emailSent |-> wk[w].emailResult.success,
               error |-> IF wk[w].emailResult.success THEN NoError
                         ELSE wk[w].emailResult.error])]
     IN /\ wk' = [wk EXCEPT ![w] =
             IF worker.i > Len(worker.due) THEN Respond(worker)
             ELSE [worker EXCEPT !.pc = "send"]]
        /\ lastRun' = IF worker.i > Len(worker.due) /\ lastRun = "queried"
                        THEN "complete" ELSE lastRun
  /\ UNCHANGED <<now, sc, attempts, faults, commitFailed, undelivered>>

\* A variant of CommitFail that skips the record and goes on with the
\* loop.
CommitFailContinue(w) ==
  /\ wk[w].pc = "save"
  /\ faults < MaxFaults
  /\ faults' = faults + 1
  /\ commitFailed' = commitFailed \cup {wk[w].due[wk[w].i]._id}
  /\ LET worker == [wk[w] EXCEPT !.saves = @ + 1, !.i = @ + 1,
                                  !.faulted = TRUE,
                                  !.emailResult = IdleWorker.emailResult]
     IN wk' = [wk EXCEPT ![w] =
          IF worker.i > Len(worker.due) THEN Respond(worker)
          ELSE [worker EXCEPT !.pc = "send"]]
  /\ lastRun' = "none"
  /\ UNCHANGED <<now, store, sc, attempts, undelivered>>

\* save() fails: the catch block answers, the rest of the batch is left.
CommitFail(w) ==
  /\ wk[w].pc = "save"
  /\ faults < MaxFaults
  /\ faults' = faults + 1
  /\ commitFailed' = commitFailed \cup {wk[w].due[wk[w].i]._id}
  /\ wk' = [wk EXCEPT ![w] =
       RespondError([@ EXCEPT !.saves = @ + 1, !.faulted = TRUE])]
  /\ lastRun' = "none"
  /\ UNCHANGED <<now, store, sc, attempts, undelivered>>

\* The response has gone out; the slot is free for the next invocation.
Finish(w) ==
  /\ wk[w].pc = "done"
  /\ wk' = [wk EXCEPT ![w] = IdleWorker]
  /\ UNCHANGED <<now, store, sc, attempts, faults, commitFailed, undelivered, lastRun>>

\* ------------------------------------------------------------------------
\* POST /api/set-reminder
\* ------------------------------------------------------------------------

MissingFields == "Missing required fields"

InvalidEmail == "Invalid email format"

InvalidTime == "Invalid reminder time. Please provide a positive whole number"

SetFailed == "Failed to set reminder. Please try again later."

\* A variant of Validate without the email check.
ValidateNoEmail(req) ==
  IF Falsy(req.email) \/ Falsy(req.problemUrl) \/ req.reminderMinutes = Undefined
    THEN MissingFields
  ELSE IF parseReminderTime(req.reminderMinutes) = NoMinutes
    THEN InvalidTime
  ELSE NoError

\* The input validation: the error the request is answered with, or
\* NoError when it passes.
Validate(req) ==
  IF Falsy(req.email) \/ Falsy(req.problemUrl) \/ req.reminderMinutes = Undefined
    THEN MissingFields
  ELSE IF ~validateEmail(req.email)
    THEN InvalidEmail
  ELSE IF parseReminderTime(req.reminderMinutes) = NoMinutes
    THEN InvalidTime
  ELSE NoError

\* userTimezone || detectTimezone(req)
ResolveTimezone(req) ==
  IF req.timezone # NoZone THEN req.timezone ELSE detectTimezone(req.header)

\* A request arrives and is validated; the due instant and its text are
\* computed from the current date.
SchedStart(req) ==
  /\ sc.pc = "idle"
  /\ Len(store) < MaxReminders
  /\ sc' = IF Validate(req) # NoError
       THEN [sc EXCEPT !.pc = "done", !.req = req, !.status = 400,
                       !.error = Validate(req), !.at = now,
                       !.before = Len(store)]
       ELSE LET minutes == parseReminderTime(req.reminderMinutes)
                timezone == ResolveTimezone(req)
                scheduledFor == calculateReminderTime(minutes, timezone, now)
            IN [sc EXCEPT !.pc = "construct", !.req = req, !.at = now,
                          !.before = Len(store),
                          !.minutes = minutes, !.timezone = timezone,
                          !.scheduledFor = scheduledFor,
                          !.formatted = formatScheduledTime(scheduledFor, timezone)]
  /\ UNCHANGED <<now, store, wk, attempts, faults, commitFailed, undelivered, lastRun>>

\* The document is constructed (createdAt is the date then) and its
\* save() is issued.
SchedConstruct ==
  /\ sc.pc = "construct"
  /\ sc' = [sc EXCEPT !.pc = "save",
                      !.doc = NewReminder(sc.req.email, sc.req.problemUrl,
                                          sc.scheduledFor, sc.timezone, now)]
  /\ UNCHANGED <<now, store, wk, attempts, faults, commitFailed, undelivered, lastRun>>

\* The insert that document.save() sends for a new document.
Insert(docs, doc) == Append(docs, [doc EXCEPT !._id = Len(docs) + 1])

\* save() returns: the record is in the store; sendEmail is called.
SchedSave ==
  /\ sc.pc = "save"
  /\ SchemaValid(sc.doc)
  /\ store' = Insert(store, sc.doc)
  /\ sc' = [sc EXCEPT !.pc = "confirm", !.created = Len(store) + 1]
  /\ lastRun' = "none"
  /\ UNCHANGED <<now, wk, attempts, faults, commitFailed, undelivered>>

\* res.status(500).json({error: ...}) of the handler's catch block.
SchedError(s) == [s EXCEPT !.pc = "done", !.status = 500, !.error = SetFailed]

\* save() rejects the document: the catch block answers.
SchedSaveInvalid ==
  /\ sc.pc = "save"
  /\ ~SchemaValid(sc.doc)
  /\ sc' = SchedError(sc)
  /\ UNCHANGED <<now, store, wk, attempts, faults, commitFailed, undelivered, lastRun>>

\* A variant of SchedSaveFail that lets the failure pass and goes on to the
\* confirmation.
SchedSaveFailIgnored ==
  /\ sc.pc = "save"
  /\ sc' = [sc EXCEPT !.pc = "confirm", !.faulted = TRUE]
  /\ UNCHANGED <<now, store, wk, attempts, faults, commitFailed, undelivered, lastRun>>

\* save() fails in the store: the catch block answers.
SchedSaveFail ==
  /\ sc.pc = "save"
  /\ sc' = SchedError([sc EXCEPT !.faulted = TRUE])
  /\ UNCHANGED <<now, store, wk, attempts, faults, commitFailed, undelivered, lastRun>>

\* sendEmail for the confirmation returns, ok telling whether the
\* transport took the mail; the response goes out.
SchedConfirm(ok) ==
  /\ sc.pc = "confirm"
  /\ LET emailResult == sendEmail(ok)
         s == [sc EXCEPT !.confirms = @ + 1, !.confirmed = ok]
     IN sc' = IF emailResult.thrown
                THEN SchedError(s)
              ELSE IF ~emailResult.success
                THEN [s EXCEPT !.pc = "done", !.status = 207, !.success = TRUE,
                               !.respScheduledFor = sc.formatted,
                               !.respTimezone = sc.timezone,
                               !.emailError = emailResult.error]
              ELSE [s EXCEPT !.pc = "done", !.status = 200, !.success = TRUE,
                             !.respScheduledFor = sc.formatted,
                             !.respTimezone = sc.timezone]
  /\ UNCHANGED <<now, store, wk, attempts, faults, commitFailed, undelivered, lastRun>>

\* The response has gone out.
SchedFinish ==
  /\ sc.pc = "done"
  /\ sc' = IdleSchedule
  /\ UNCHANGED <<now, store, wk, attempts, faults, commitFailed, undelivered, lastRun>>

\* ------------------------------------------------------------------------
\* Specifications
\* ------------------------------------------------------------------------

\* The schedule handler's steps.
Schedule ==
  \/ \E req \in Requests : SchedStart(req)
  \/ SchedConstruct
  \/ SchedSave
  \/ SchedSaveInvalid
  \/ SchedSaveFail
  \/ \E ok \in BOOLEAN : SchedConfirm(ok)
  \/ SchedFinish

\* The steps of a process-due invocation after its start.
Process ==
  \/ \E w \in Workers : RunQuery(w)
  \/ \E w \in Workers : QueryFail(w)
  \/ \E w \in Workers, ok \in BOOLEAN : SendReminder(w, ok)
  \/ \E w \in Workers : CommitSent(w)
  \/ \E w \in Workers : CommitFail(w)
  \/ \E w \in Workers : Finish(w)

\* A process-due invocation starts only when no other is in progress.
StartAlone(w, token) ==
  /\ \A v \in Workers : wk[v].pc = "idle"
  /\ Start(w, token)

Next ==
  \/ Tick
  \/ \E w \in Workers, token \in Tokens : StartAlone(w, token)
  \/ Process
  \/ Schedule

\* The server with schedule requests at any time and process-due
\* invocations that do not overlap (one trigger at a time).
Spec == Init /\ [][Next]_vars

\* The record an accepted request req makes when handled at instant clock.
RecordOf(req, clock) ==
  NewReminder(req.email, req.problemUrl,
              calculateReminderTime(parseReminderTime(req.reminderMinutes),
                                    ResolveTimezone(req), clock),
              ResolveTimezone(req), clock)

Accepted == {req \in Requests :
               Validate(req) = NoError /\ SchemaValid(RecordOf(req, 0))}

\* The stores that accepted requests handled at instant 0 leave.
RECURSIVE Populate(_)
Populate(reqs) ==
  IF reqs = <<>> THEN <<>>
  ELSE Insert(Populate(SubSeq(reqs, 1, Len(reqs) - 1)),
              RecordOf(reqs[Len(reqs)], 0))

InitOverlap ==
  /\ now = 0
  /\ \E n \in 0..MaxReminders : \E reqs \in [1..n -> Accepted] :
       store = Populate(reqs)
  /\ wk = [w \in Workers |-> IdleWorker]
  /\ sc = IdleSchedule
  /\ attempts = [k \in RecIds |-> 0]
  /\ faults = 0
  /\ commitFailed = {}
  /\ undelivered = {}
  /\ lastRun = "none"

NextOverlap ==
  \/ Tick
  \/ \E w \in Workers, token \in Tokens : Start(w, token)
  \/ Process

\* Process-due invocations that may overlap, on a store that schedule
\* requests have filled.
SpecOverlap == InitOverlap /\ [][NextOverlap]_vars

\* ------------------------------------------------------------------------
\* The duration input of a schedule request
\* ------------------------------------------------------------------------

\* The characters of the reminderMinutes strings tried.
Alphabet == {"0", "1", "5", ".", "-", " ", "m", "H", "d", "x"}

Strings == UNION {[1..n -> Alphabet] : n \in 0..MaxLen}

\* The reminderMinutes values tried.
ParseInputs ==
  {Null} \cup {Num(t) : t \in (0 - MaxTenths)..MaxTenths}
         \cup {Str(s) : s \in Strings}

\* A schedule request with one of these durations has arrived.
InitParse ==
  /\ now = 0
  /\ store = <<>>
  /\ wk = [w \in Workers |-> IdleWorker]
  /\ \E v \in ParseInputs :
       sc = [IdleSchedule EXCEPT !.req = Req(GoodEmail, GoodUrl, v, NoZone, NoZone)]
  /\ attempts = [k \in RecIds |-> 0]
  /\ faults = 0
  /\ commitFailed = {}
  /\ undelivered = {}
  /\ lastRun = "none"

NextParse ==
  \/ SchedStart(sc.req)
  \/ SchedConstruct
  \/ SchedSave

\* The schedule handler on one request, up to the save of its record, for
\* every duration input in ParseInputs.
SpecParse == InitParse /\ [][NextParse]_vars

\* The text of a duration with the surrounding whitespace left out.
Core(s) ==
  LET inked == {k \in 1..Len(s) : s[k] # " "}
  IN IF inked = {} THEN <<>>
     ELSE SubSeq(s, CHOOSE a \in inked : \A b \in inked : a <= b,
                    CHOOSE a \in inked : \A b \in inked : a >= b)

\* A run of decimal digits, and the number it writes.
Numeral(s) == s # <<>> /\ \A k \in 1..Len(s) : s[k] \in Digits

RECURSIVE NumeralValue(_)
NumeralValue(s) ==
  IF s = <<>> THEN 0
  ELSE 10 * NumeralValue(SubSeq(s, 1, Len(s) - 1)) + DigitVal(s[Len(s)])

\* The minutes in a unit letter, 0 for any other character.
UnitMinutes(c) ==
  CASE c \in {"m", "M"} -> 1
    [] c \in {"h", "H"} -> 60
    [] c \in {"d", "D"} -> 1440
    [] OTHER -> 0

Front(s) == SubSeq(s, 1, Len(s) - 1)

\* s is a numeral, a point and a numeral.
Fraction(s) ==
  \E p \in 1..Len(s) :
    /\ s[p] = "."
    /\ Numeral(SubSeq(s, 1, p - 1))
    /\ Numeral(SubSeq(s, p + 1, Len(s)))

WholePart(s) ==
  NumeralValue(SubSeq(s, 1, (CHOOSE p \in 1..Len(s) : s[p] = ".") - 1))

\* The inputs that C11 lists: no number or string at all; a number that
\* is not positive or is cut to zero; a string that does not begin like a
\* number (among them a bare unit letter); one that writes zero or a
\* negative number, with or without a unit; a fraction below one; digits
\* followed by a character that is no unit; a fraction followed by a unit.
ListedInvalid(v) ==
  \/ v.t = "null"
  \/ v.t = "number" /\ v.tenths < 10
  \/ /\ v.t = "string"
     /\ LET c == Core(v.s)
            body == IF c # <<>> /\ Head(c) = "-" THEN Tail(c) ELSE c
        IN \/ c = <<>>
           \/ Head(c) \notin Digits \cup {"-"}
           \/ Numeral(c) /\ NumeralValue(c) = 0
           \/ Head(c) = "-" /\ Numeral(body)
           \/ /\ Len(body) >= 2
              /\ UnitMinutes(body[Len(body)]) > 0
              /\ Numeral(Front(body))
              /\ Head(c) = "-" \/ NumeralValue(Front(body)) = 0
           \/ Fraction(c) /\ WholePart(c) = 0
           \/ /\ Len(c) >= 2
              /\ Numeral(Front(c))
              /\ c[Len(c)] \notin Digits \cup {"."}
              /\ UnitMinutes(c[Len(c)]) = 0
           \/ /\ Len(c) >= 2
              /\ UnitMinutes(c[Len(c)]) > 0
              /\ Fraction(Front(c))

\* C11: a request whose duration is one of the listed invalid inputs is
\* answered 400 with the invalid-time message, and no record is made for it.
C11_InvalidRejected ==
  (sc.pc # "idle" /\ ListedInvalid(sc.req.reminderMinutes))
    => /\ sc.pc = "done"
       /\ sc.status = 400
       /\ sc.error = InvalidTime
       /\ store = <<>>

\* The inputs that C12 lists, and the minutes it gives for each: a
\* positive number (its floor); a positive integer numeral; such a numeral
\* followed by a unit letter in either case; whitespace around is ignored.
ListedValid(v) ==
  \/ v.t = "number" /\ v.tenths > 0
  \/ /\ v.t = "string"
     /\ LET c == Core(v.s)
        IN \/ Numeral(c) /\ NumeralValue(c) > 0
           \/ /\ Len(c) >= 2
              /\ UnitMinutes(c[Len(c)]) > 0
              /\ Numeral(Front(c))
              /\ NumeralValue(Front(c)) > 0

ListedMinutes(v) ==
  IF v.t = "number" THEN v.tenths \div 10
  ELSE LET c == Core(v.s)
       IN IF Numeral(c) THEN NumeralValue(c)
          ELSE NumeralValue(Front(c)) * UnitMinutes(c[Len(c)])

\* ------------------------------------------------------------------------
\* Properties
\* ------------------------------------------------------------------------

Stored == 1..Len(store)

\* Invocation w has handed the reminder mail of record k to the transport.
Attempted(w, k) == \E j \in 1..wk[w].sends : wk[w].due[j]._id = k

C2_NoDoubleAttempt ==
  \A k \in RecIds : \A v, w \in Workers :
    (v # w /\ k \notin commitFailed) => ~(Attempted(v, k) /\ Attempted(w, k))

\* C3: a process-due invocation that directly follows a full run, with the
\* clock unmoved and no record added since that run began, finds nothing
\* due: it sends no mail and answers processedReminders = 0, results = [].
C3_SecondRunEmpty ==
  \A w \in Workers :
    (wk[w].afterFullRun /\ wk[w].pc \notin {"idle", "query"}) =>
      /\ wk[w].due = <<>>
      /\ wk[w].sends = 0
      /\ wk[w].saves = 0
      /\ wk[w].pc = "done"
      /\ ~wk[w].faulted =>
           /\ wk[w].status = 200
           /\ wk[w].processed = 0
           /\ wk[w].results = <<>>

\* C3 witness: the second run has answered with nothing processed, right
\* after a run that handled a record.
C3_Witness ==
  \E w \in Workers, k \in Stored :
    /\ wk[w].afterFullRun
    /\ wk[w].pc = "done"
    /\ wk[w].status = 200
    /\ wk[w].processed = 0
    /\ store[k].sent
    /\ attempts[k] = 1
    /\ lastRun = "complete"

\* C4: every record of the batch that the loop has passed is marked sent in
\* the store and has its outcome, emailSent telling what the transport did
\* and error set exactly when it refused; a 200 response counts every
\* record of the batch; and only a store failure makes the call fail.
C4_MarkedWhateverTheOutcome ==
  \A w \in Workers :
    /\ \A j \in 1..Len(wk[w].results) :
         /\ wk[w].results[j].reminderId = wk[w].due[j]._id
         /\ store[wk[w].due[j]._id].sent
         /\ ~wk[w].results[j].emailSent => wk[w].due[j]._id \in undelivered
         /\ wk[w].results[j].emailSent <=> wk[w].results[j].error = NoError
    /\ wk[w].pc = "send" => Len(wk[w].results) = wk[w].i - 1
    /\ wk[w].pc = "save" =>
         (~wk[w].emailResult.success => wk[w].due[wk[w].i]._id \in undelivered)
    /\ wk[w].status = 200 =>
         /\ wk[w].success
         /\ Len(wk[w].results) = Len(wk[w].due)
         /\ wk[w].processed = Len(wk[w].due)
    /\ wk[w].status = 500 => wk[w].faulted

\* C4 witness: a 200 response for a batch of two, one refused by the
\* transport, both marked sent.
C4_Witness ==
  \E w \in Workers :
    /\ wk[w].pc = "done"
    /\ wk[w].status = 200
    /\ wk[w].processed = 2
    /\ \E j \in 1..2 : ~wk[w].results[j].emailSent
    /\ \E j \in 1..2 : wk[w].results[j].emailSent
    /\ \A j \in 1..2 : store[wk[w].due[j]._id].sent

\* C5: the send state only goes from pending to sent.  In every step each
\* record stays in the store and, once sent, stays sent; a record that
\* appears is pending and is put there by the schedule handler's save; and
\* a record's sent changes only in a process-due invocation's save.
C5_SentMonotonic ==
  [][ /\ Len(store') >= Len(store)
      /\ \A k \in Stored : store[k].sent => store'[k].sent
      /\ \A k \in (Len(store) + 1)..Len(store') :
           /\ store'[k].sent = FALSE
           /\ sc.pc = "save"
           /\ sc'.created = k
      /\ \A k \in Stored :
           store'[k].sent # store[k].sent =>
             \E w \in Workers :
               /\ wk[w].pc = "save"
               /\ wk[w].due[wk[w].i]._id = k
               /\ wk'[w].saves = wk[w].saves + 1 ]_vars

\* C5 witness: a record that a process-due invocation has marked sent, next
\* to a record a later schedule request has made, still pending.
C5_Witness ==
  \E k, n \in Stored :
    /\ k < n
    /\ store[k].sent
    /\ attempts[k] = 1
    /\ ~store[n].sent
    /\ store[n].createdAt > store[k].scheduledFor

\* C6: only due records are processed.  A record that has had a reminder
\* mail or is marked sent has scheduledFor at or before the current
\* instant, and every record a due query returned was due at the query's
\* date and was read as pending.
C6_OnlyDue ==
  /\ \A k \in Stored :
       (attempts[k] > 0 \/ store[k].sent) => store[k].scheduledFor <= now
  /\ \A w \in Workers : \A j \in 1..Len(wk[w].due) :
       /\ wk[w].due[j].scheduledFor <= now
       /\ j > wk[w].sends => wk[w].due[j].sent = FALSE

\* C6 witness: an invocation has answered for a batch while an older
\* record, not yet due, was left alone.
C6_Witness ==
  \E w \in Workers, k \in Stored :
    /\ wk[w].pc = "done"
    /\ wk[w].status = 200
    /\ wk[w].processed >= 1
    /\ k < wk[w].due[1]._id
    /\ store[k].scheduledFor > now
    /\ attempts[k] = 0
    /\ ~store[k].sent

\* C7: a call whose x-cron-secret header is missing or is not the secret is
\* answered 401 Unauthorized at once, without a query, a mail or a save.
C7_UnauthorizedDoesNothing ==
  \A w \in Workers :
    (wk[w].pc # "idle" /\ wk[w].token # CRON_SECRET) =>
      /\ wk[w].pc = "done"
      /\ wk[w].status = 401
      /\ wk[w].error = "Unauthorized"
      /\ wk[w].queries = 0
      /\ wk[w].sends = 0
      /\ wk[w].saves = 0
      /\ wk[w].due = <<>>
      /\ wk[w].results = <<>>

\* C7 witness: a call with a wrong secret has been turned away while a due
\* record was waiting.
C7_Witness ==
  \E w \in Workers, k \in Stored :
    /\ wk[w].pc = "done"
    /\ wk[w].status = 401
    /\ wk[w].token = Str(<<"x">>)
    /\ store[k].scheduledFor <= now
    /\ ~store[k].sent
    /\ attempts[k] = 0

\* The three rejections of a schedule request, as the claim words them.
LacksFields(req) ==
  \/ req.email = Undefined \/ req.email = Str(<<>>)
  \/ req.problemUrl = Undefined \/ req.problemUrl = Str(<<>>)
  \/ req.reminderMinutes = Undefined

BadEmail(req) == ~LacksFields(req) /\ ~validateEmail(req.email)

BadDuration(req) ==
  /\ ~LacksFields(req)
  /\ ~BadEmail(req)
  /\ parseReminderTime(req.reminderMinutes) = NoMinutes

\* C8: a schedule request with a field missing, a malformed email or an
\* invalid duration is answered 400 with the message of its own rejection,
\* the three messages differ, and the request adds no record and sends no
\* confirmation mail.
C8_RejectedNoEffect ==
  /\ Cardinality({MissingFields, InvalidEmail, InvalidTime}) = 3
  /\ sc.pc # "idle" =>
       /\ LacksFields(sc.req) => sc.status = 400 /\ sc.error = MissingFields
       /\ BadEmail(sc.req) => sc.status = 400 /\ sc.error = InvalidEmail
       /\ BadDuration(sc.req) => sc.status = 400 /\ sc.error = InvalidTime
       /\ sc.status = 400 =>
            /\ sc.pc = "done"
            /\ ~sc.success
            /\ sc.created = 0
            /\ sc.confirms = 0
            /\ Len(store) = sc.before

\* C8 witness: a request with a malformed email (and a bad duration too) has
\* been rejected as an invalid email, with records in the store.
C8_Witness ==
  /\ sc.pc = "done"
  /\ sc.status = 400
  /\ sc.error = InvalidEmail
  /\ BadEmail(sc.req)
  /\ Len(store) > 0

\* C9: a schedule request whose record has been saved is answered with
\* success, the text of the record's due instant in the resolved zone and
\* that zone, and an emailError exactly when the transport refused the
\* confirmation; the record stays in the store as the request made it.
C9_ConfirmationNotFatal ==
  (sc.pc = "done" /\ Len(store) > sc.before) =>
    /\ sc.status \in {200, 207}
    /\ sc.success
    /\ sc.error = NoError
    /\ sc.confirms = 1
    /\ sc.created = sc.before + 1
    /\ sc.respScheduledFor =
         formatScheduledTime(store[sc.created].scheduledFor, sc.respTimezone)
    /\ sc.respTimezone = store[sc.created].timezone
    /\ sc.respTimezone = ResolveTimezone(sc.req)
    /\ (sc.emailError # NoError) <=> ~sc.confirmed
    /\ (sc.status = 207) <=> ~sc.confirmed
    /\ store[sc.created].email = sc.req.email
    /\ store[sc.created].createdAt <= now
    /\ store[sc.created].sent => attempts[sc.created] > 0

\* C9 witness: the transport refused the confirmation, the request is
\* answered 207 with success and an emailError, and the record is in the
\* store, pending.
C9_Witness ==
  /\ sc.pc = "done"
  /\ sc.status = 207
  /\ sc.success
  /\ sc.emailError = SendError
  /\ Len(store) = sc.before + 1
  /\ ~store[sc.created].sent

\* The save of the schedule request in progress has failed: the store
\* failed, or the schema rejected the record (its problemUrl is blank).
SaveFailed ==
  /\ sc.doc # <<>>
  /\ sc.faulted \/ sc.doc.problemUrl = Str(<<>>)

\* C10: when the save of the new record fails, the request is answered 500
\* with the generic error, no confirmation mail is sent for it and it leaves
\* no record; and no request has a confirmation mail without a saved record.
C10_SaveFailureFatal ==
  /\ (sc.pc \notin {"idle", "construct", "save"} /\ SaveFailed) =>
       /\ sc.pc = "done"
       /\ sc.status = 500
       /\ sc.error = SetFailed
       /\ ~sc.success
       /\ sc.confirms = 0
       /\ sc.created = 0
       /\ Len(store) = sc.before
  /\ sc.confirms > 0 => (sc.created # 0 /\ Len(store) > sc.before)
  /\ sc.status = 500 => SaveFailed

\* C10 witness: a valid request whose save failed in the store has been
\* answered 500, with no mail and no record.
C10_Witness ==
  /\ sc.pc = "done"
  /\ sc.status = 500
  /\ sc.faulted
  /\ Validate(sc.req) = NoError
  /\ SchemaValid(sc.doc)
  /\ sc.confirms = 0
  /\ Len(store) = sc.before

\* C12: a request whose duration is a positive number, a positive integer
\* numeral, or such a numeral with a unit letter m, h or d in either case
\* (whitespace around ignored) is not refused for its duration, and the
\* minutes taken are the floor of the number, the numeral's value, or that
\* value times 1, 60 or 1440.
C12_ParsedMinutes ==
  (sc.pc # "idle" /\ ListedValid(sc.req.reminderMinutes))
    => /\ sc.status # 400
       /\ sc.minutes = ListedMinutes(sc.req.reminderMinutes)
       /\ sc.scheduledFor = sc.at + sc.minutes * TicksPerMinute

\* C12 witness: the record for " 1H " is saved, due 60 minutes on.
C12_Witness ==
  /\ sc.pc = "confirm"
  /\ sc.req.reminderMinutes = Str(<<" ", "1", "H", " ">>)
  /\ sc.minutes = 60
  /\ Len(store) = 1
  /\ store[1].scheduledFor = 60 * TicksPerMinute

\* C13: the time zone stored on every record, and the one in the response
\* of every accepted schedule request, is a zone that moment.tz.zone
\* knows; when the request's own timezone is not such a zone the header's
\* is taken if it is one, and the default otherwise.
C13_RecognizedZone ==
  /\ \A k \in Stored : store[k].timezone \in Zones
  /\ sc.pc \in {"construct", "save", "confirm"} \/ sc.status \in {200, 207}
       => /\ sc.timezone \in Zones
          /\ sc.req.timezone \notin Zones =>
               sc.timezone = IF sc.req.header \in Zones THEN sc.req.header
                             ELSE DEFAULT_TIMEZONE
  /\ sc.status \in {200, 207} => sc.respTimezone \in Zones

\* The schedule request in progress has passed validation.
SchedAccepted ==
  sc.pc \in {"construct", "save", "confirm"} \/ sc.status \in {200, 207}

\* C14: for an accepted schedule request the due instant is the instant the
\* request came plus the parsed minutes, the record saved carries that
\* instant, and calculateReminderTime gives it for every time zone name,
\* known or not.
C14_DueInstant ==
  SchedAccepted =>
    /\ sc.scheduledFor =
         sc.at + parseReminderTime(sc.req.reminderMinutes) * TicksPerMinute
    /\ \A timezone \in Zones \cup {NoZone, "Mars/Phobos"} :
         calculateReminderTime(parseReminderTime(sc.req.reminderMinutes),
                               timezone, sc.at) = sc.scheduledFor
    /\ sc.created # 0 => store[sc.created].scheduledFor = sc.scheduledFor

\* C14 witness: a request that came at instant 1 with the header Mars/Phobos
\* (so in the default zone, 330 minutes east) has its record saved, due one
\* minute after instant 1.
C14_Witness ==
  /\ sc.pc = "done"
  /\ sc.status = 200
  /\ sc.at = 1
  /\ sc.timezone = DEFAULT_TIMEZONE
  /\ sc.created # 0
  /\ store[sc.created].scheduledFor = 1 + TicksPerMinute
  /\ sc.respScheduledFor.wall = 1 + TicksPerMinute + 330 * TicksPerMinute

\* C15: every record has scheduledFor >= createdAt.
C15_DueNotBeforeCreated ==
  \A k \in Stored : store[k].scheduledFor >= store[k].createdAt

\* Invocation w has answered after one of its save() calls failed.
SaveSentFailed(w) ==
  wk[w].pc = "done" /\ wk[w].faulted /\ wk[w].saves > 0

\* C16 as stated: after a failed save of one record's sent state the other
\* due records of the batch are still attempted, and the call reports the
\* outcomes (it answers 200 with the results).
C16_SaveFailureLocal ==
  \A w \in Workers :
    SaveSentFailed(w) => wk[w].sends = Len(wk[w].due) /\ wk[w].status = 200

\* C16: a store failure is fatal to the whole process-due call, in the
\* query and in a save alike: the call answers 500 with the generic error
\* and reports no count and no outcomes.  After a failed query nothing was
\* attempted.  After a failed save of the i-th record the records before it
\* are committed, and the records after it are neither attempted nor marked
\* by this call.
C16_StoreFailureFatal ==
  \A w \in Workers :
    (wk[w].pc = "done" /\ wk[w].faulted) =>
      /\ wk[w].status = 500
      /\ ~wk[w].success
      /\ wk[w].processed = 0
      /\ wk[w].error = "Failed to process reminders"
      /\ wk[w].saves = 0 => wk[w].sends = 0 /\ wk[w].due = <<>>
      /\ wk[w].saves > 0 =>
           /\ wk[w].sends = wk[w].i
           /\ wk[w].saves = wk[w].i
           /\ \A j \in 1..(wk[w].i - 1) : store[wk[w].due[j]._id].sent
           /\ \A j \in (wk[w].i + 1)..Len(wk[w].due) :
                /\ ~Attempted(w, wk[w].due[j]._id)
                /\ ~store[wk[w].due[j]._id].sent

\* C16 witness: the save of the first of two due records has failed; the
\* call has answered 500 and the second record is left unsent, no mail of
\* it handed to the transport.
C16_Witness ==
  \E w \in Workers :
    /\ SaveSentFailed(w)
    /\ wk[w].status = 500
    /\ Len(wk[w].due) = 2
    /\ wk[w].i = 1
    /\ attempts[wk[w].due[2]._id] = 0
    /\ ~store[wk[w].due[2]._id].sent

\* C17: a record whose write of sent = true has failed is handed to the
\* transport no more than the once before that write.
C17_AtMostOnceAfterFailedWrite ==
  \A k \in commitFailed : attempts[k] <= 1

\* C18: no step removes a record or changes a record's email, problemUrl,
\* scheduledFor, timezone, createdAt or _id; a record's sent changes only
\* in the step where the save() of a process-due invocation returns for that
\* very record; the store grows only where the save() of the schedule
\* handler returns, by one record, the others staying as they are, and no
\* other step of the schedule handler touches the store.
C18_Frame ==
  [][/\ Len(store') >= Len(store)
     /\ \A k \in Stored : [store'[k] EXCEPT !.sent = store[k].sent] = store[k]
     /\ \A k \in Stored :
          store'[k].sent # store[k].sent =>
            \E w \in Workers :
              /\ wk[w].pc = "save"
              /\ wk[w].due[wk[w].i]._id = k
              /\ wk'[w].saves = wk[w].saves + 1
     /\ Len(store') > Len(store) =>
          /\ Len(store') = Len(store) + 1
          /\ SubSeq(store', 1, Len(store)) = store
          /\ sc.pc = "save"
          /\ sc'.pc = "confirm"
          /\ sc'.created = Len(store')
          /\ wk' = wk
     /\ sc' # sc => \A k \in Stored : store'[k] = store[k]]_vars

\* C18 witness: a process-due invocation has answered 200 for the one due
\* record, which is in the store as it was but for sent, while the record
\* that the schedule request in progress has added is untouched.
C18_Witness ==
  \E w \in Workers :
    /\ wk[w].pc = "done"
    /\ wk[w].status = 200
    /\ Len(wk[w].due) = 1
    /\ Len(store) = 2
    /\ store[wk[w].due[1]._id] = wk[w].due[1]
    /\ store[wk[w].due[1]._id].sent
    /\ sc.created = 2
    /\ wk[w].due[1]._id = 1
    /\ store[2] = [sc.doc EXCEPT !._id = 2]
    /\ ~store[2].sent

\* The records of invocation w's batch whose mail has been handed to the
\* transport and whose sent = true is not in the store.
InFlight(w) ==
  {j \in 1..wk[w].sends : ~store[wk[w].due[j]._id].sent}

\* C19: in an invocation going through its batch, at most one record is
\* attempted and not committed: none while the mail of the i-th record is
\* with the transport (the records before it are all committed), and the
\* i-th only while its save() is awaited.
C19_OneInFlight ==
  \A w \in Workers :
    /\ Cardinality(InFlight(w)) <= 1
    /\ wk[w].pc = "send" => InFlight(w) = {} /\ wk[w].sends = wk[w].i - 1
    /\ wk[w].pc = "save" => InFlight(w) = {wk[w].i} /\ wk[w].sends = wk[w].i

\* C19 witness: the save() of the second record of a batch of two is
\* awaited, the first record being committed.
C19_Witness ==
  \E w \in Workers :
    /\ wk[w].pc = "save"
    /\ Len(wk[w].due) = 2
    /\ wk[w].i = 2
    /\ store[wk[w].due[1]._id].sent
    /\ InFlight(w) = {2}

\* ------------------------------------------------------------------------
\* The server under a trigger that keeps calling
\* ------------------------------------------------------------------------

\* The trigger calls process-due with the secret when no call is in
\* progress.
Trigger == \E w \in Workers : StartAlone(w, CRON_SECRET)

NextLive ==
  \/ Tick
  \/ Trigger
  \/ Process
  \/ Schedule

\* The trigger keeps calling; a handler that can take its next step takes
\* it; the store's query and save do not fail forever.
Fairness ==
  /\ WF_vars(Trigger)
  /\ SF_vars(\E w \in Workers : RunQuery(w))
  /\ WF_vars(\E w \in Workers, ok \in BOOLEAN : SendReminder(w, ok))
  /\ SF_vars(\E w \in Workers : CommitSent(w))
  /\ WF_vars(\E w \in Workers : Finish(w))

\* The server with schedule requests at any time and the authorized
\* trigger alone calling process-due, under Fairness.  Calls without the
\* secret do no work and are left out.
SpecLive == Init /\ [][NextLive]_vars /\ Fairness

\* C20: a record in the store whose scheduledFor the clock has reached is
\* eventually marked sent, whatever schedule requests, failed mails and
\* store failures come in between.
C20_EventuallySent ==
  \A k \in RecIds :
    (k \in Stored /\ store[k].scheduledFor <= now)
      ~> (k \in Stored /\ store[k].sent)

\* C20 witness: two records due from the same instant; an earlier
\* invocation has processed the first alone, so the second was saved after
\* that invocation's query, and the invocation now answering has processed
\* the second.
C20_Witness ==
  \E w \in Workers :
    /\ wk[w].pc = "done"
    /\ wk[w].status = 200
    /\ Len(wk[w].due) = 1
    /\ wk[w].due[1]._id = 2
    /\ Len(store) = 2
    /\ store[1].scheduledFor = store[2].scheduledFor
    /\ store[1].scheduledFor > store[1].createdAt
    /\ store[1].sent
    /\ store[2].sent
    /\ attempts = [k \in RecIds |-> 1]
    /\ commitFailed = {}

====
